---------------------------- MODULE Spec2Model ----------------------------
(***************************************************************************)
(* Model of the nupic.fluent classification experiment runner:             *)
(*   fluent/experiments/baseline_experiment.py  (run, runExperiment,       *)
(*                                               training, testing)        *)
(*   fluent/models/classification_model.py      (scoring, aggregation)     *)
(*   fluent/models/classify_endpoint.py         (ClassificationModelEndpoint)*)
(*                                                                         *)
(* Sample indices are 0-based as in the source; TLA+ sequences are 1-based,*)
(* so element i of a Python list l is l[i + 1].  Python floats are         *)
(* modelled as exact rationals <<numerator, denominator>> in lowest terms. *)
(***************************************************************************)
EXTENDS Integers, Sequences, FiniteSets, TLC

(***************************************************************************)
(* Bounds of the model.                                                    *)
(***************************************************************************)
MaxSamples == 3
MaxFolds == 3
MaxLabels == 2
MaxEval == 2
FoldSize == 5
MaxCategories == 4
MaxVotes == 4

(***************************************************************************)
(* Generic helpers.                                                        *)
(***************************************************************************)
Min(a, b) == IF a <= b THEN a ELSE b

Max(a, b) == IF a >= b THEN a ELSE b

Range(s) == {s[i] : i \in 1..Len(s)}

RECURSIVE SortedSeq(_)
\* The elements of a finite set of integers in ascending order.
SortedSeq(S) ==
  IF S = {} THEN <<>>
  ELSE LET m == CHOOSE x \in S : \A y \in S : x <= y
       IN  <<m>> \o SortedSeq(S \ {m})

RECURSIVE SumSeq(_)
SumSeq(s) == IF s = <<>> THEN 0 ELSE s[1] + SumSeq(Tail(s))

IsPrefix(s, t) == Len(s) <= Len(t) /\ SubSeq(t, 1, Len(s)) = s

RECURSIVE GCD(_, _)
GCD(a, b) == IF b = 0 THEN a ELSE GCD(b, a % b)

\* Rationals n/d with d > 0, kept in lowest terms.
Rat(n, d) == LET g == GCD(n, d) IN IF g = 0 THEN <<0, 1>> ELSE <<n \div g, d \div g>>

RatAdd(x, y) == Rat(x[1] * y[2] + y[1] * x[2], x[2] * y[2])

RatDivInt(x, n) == Rat(x[1], x[2] * n)

RatLeq(x, y) == x[1] * y[2] <= y[1] * x[2]

RatZero == <<0, 1>>

RatOne == <<1, 1>>

(***************************************************************************)
(* Input data: readCSV yields one (sample text, label) row per data line.  *)
(* Label values are indices into labelReference; sample texts are opaque   *)
(* and named by positive integers.                                         *)
(***************************************************************************)
\* labelReference = list(set(labels)) fixes some order of the label strings
\* that occur; the order taken here is that of first occurrence in the file,
\* so every index 0..L-1 names a label of the data.
LabelsInReferenceOrder(labs) ==
  /\ labs[1] = 0
  /\ \A i \in 2..Len(labs) : \E j \in 1..(i - 1) : labs[i] <= labs[j] + 1

\* The rows of a data file with n lines.  Line i holds its own text i, except
\* that line 2 may repeat the text of line 1 (dup = 1), which is how one sample
\* gets several labels.
DataRows(n) ==
  { [i \in 1..n |-> [text |-> IF dup > 0 /\ i = dup + 1 THEN dup ELSE i,
                     label |-> labs[i]]] :
      <<dup, labs>> \in
        { q \in (0..Min(1, n - 1)) \X [1..n -> 0..(MaxLabels - 1)] :
            LabelsInReferenceOrder(q[2]) } }

DataSets == UNION {DataRows(n) : n \in 1..MaxSamples}

LabelNames == <<"A", "B", "C", "D", "E", "F">>

\* labelReference: the label strings, indexed by label index.
LabelReference(rows) ==
  SubSeq(LabelNames, 1, Cardinality({rows[i].label : i \in 1..Len(rows)}))

\* sampleLabelMapping[s]: the labels of all rows whose text is s, in row order.
SampleLabelMapping(rows, s) ==
  LET idxs == SortedSeq({i \in 1..Len(rows) : rows[i].text = s})
  IN  [j \in 1..Len(idxs) |-> rows[idxs[j]].label]

LabelsFirstGold(rows) ==
  [i \in 1..Len(rows) |-> SampleLabelMapping(rows, rows[i].text)[1]]

\* labels: the numpy array of per-row label indices.
Labels(rows) == [i \in 1..Len(rows) |-> rows[i].label]

\* texter.tokenize (external): the sample text as a list of tokens.
Tokenize(text) == <<text>>

\* samples: one (tokens, gold label list) pair per row.
SetupData(rows) ==
  [i \in 1..Len(rows) |->
     <<Tokenize(rows[i].text), SampleLabelMapping(rows, rows[i].text)>>]

\* model.encodePattern (external encoder): a pattern dict for the tokens.
EncodePattern(tokens) == [text |-> tokens[1], bitmap |-> {tokens[1]}]

\* patterns = [(model.encodePattern(s[0]), s[1]) for s in samples]
Patterns(rows) ==
  LET samples == SetupData(rows)
  IN  [i \in 1..Len(rows) |-> <<EncodePattern(samples[i][1]), samples[i][2]>>]

(***************************************************************************)
(* KFolds(k).split(indices, randomize): fluent/utils/data_split.py.        *)
(***************************************************************************)
Permutations0(n) ==
  {p \in [1..n -> 0..(n - 1)] : \A i, j \in 1..n : p[i] = p[j] => i = j}

BlockSize(n, k, b) == (n \div k) + (IF b < n % k THEN 1 ELSE 0)

BlockStart(n, k, b) == b * (n \div k) + Min(b, n % k)

\* The k folds <<trainIndices, evalIndices>> of the (already shuffled) indices:
\* fold b evaluates block b and trains on the other blocks in order.
KFoldsSplit(indices, k) ==
  LET n == Len(indices)
  IN  [f \in 1..k |->
        LET s == BlockStart(n, k, f - 1)
            z == BlockSize(n, k, f - 1)
        IN  << SubSeq(indices, 1, s) \o SubSeq(indices, s + z + 1, n),
               SubSeq(indices, s + 1, s + z) >>]


(***************************************************************************)
(* Python dicts as functions over their key set.                           *)
(***************************************************************************)
EmptyDict == [x \in {} |-> <<>>]

DictPut(d, k, v) == [x \in (DOMAIN d) \cup {k} |-> IF x = k THEN v ELSE d[x]]

(***************************************************************************)
(* ClassificationModelEndpoint (classify_endpoint.py).  A model object is  *)
(* the record of its learned fields; memory is the learned state of the    *)
(* other model classes and stays empty for the endpoint model.             *)
(***************************************************************************)
\* __init__: self.positives = {}; self.categoryBitmaps = {}
UntrainedModel == [positives |-> EmptyDict, categoryBitmaps |-> EmptyDict, memory |-> <<>>]

\* client.createClassification(str(label), positives)["positions"] (external):
\* a bitmap determined by the category name and its positive examples.
CreateClassification(label, texts) == <<label, texts>>

ResetKeepsBitmaps(m) == [m EXCEPT !.positives = EmptyDict]

\* resetModel: self.positives.clear(); self.categoryBitmaps.clear()
resetModel(m) == [m EXCEPT !.positives = EmptyDict, !.categoryBitmaps = EmptyDict]

\* trainModel(sample, label)
trainModel(m, sample, label) ==
  LET init == IF label \notin DOMAIN m.positives
                THEN DictPut(m.positives, label, <<>>)
                ELSE m.positives
      pos  == DictPut(init, label, Append(init[label], sample.text))
  IN  [m EXCEPT !.positives = pos,
                !.categoryBitmaps =
                   DictPut(m.categoryBitmaps, label, CreateClassification(label, pos[label]))]

\* client.compare(sampleBitmap, catBitmap) (external): the distance metrics.
Compare(sampleBitmap, catBitmap) == <<sampleBitmap, catBitmap>>

\* testModel(self, sample): the distances between the sample and each category.
testModel(m, sample) ==
  [cat \in DOMAIN m.categoryBitmaps |-> Compare(sample.bitmap, m.categoryBitmaps[cat])]

\* Whether a model class's testModel takes the numLabels keyword that testing()
\* passes: the base class declares testModel(self, sample, numLabels=1), the
\* endpoint class defines testModel(self, sample).
TestModelTakesNumLabels(modelName) == modelName # "ClassificationModelEndpoint"

\* Whether a model class's __init__ takes the multiclass keyword that run()
\* passes: the endpoint class defines __init__(self, verbosity=1).
InitTakesMulticlass(modelName) == modelName # "ClassificationModelEndpoint"

(***************************************************************************)
(* ClassificationModel._getTopLabels and the other model classes.          *)
(***************************************************************************)
RECURSIVE ArgSortFrom(_, _)
\* numpy argsort of the entries S of f: ascending value, equal values in
\* ascending index order (the default sort is an insertion sort, hence stable,
\* for the vectors of at most 16 entries taken here).
ArgSortFrom(S, f) ==
  IF S = {} THEN <<>>
  ELSE LET m == CHOOSE x \in S :
                  \A y \in S : f[x] < f[y] \/ (f[x] = f[y] /\ x <= y)
       IN  <<m>> \o ArgSortFrom(S \ {m}, f)

KeepOrder(s) == s

\* [::-1]
Reverse(s) == [i \in 1..Len(s) |-> s[Len(s) + 1 - i]]

\* _getTopLabels: inferenceResult.argsort()[::-1][:numLabels], label indices
\* being 0-based positions of the frequency vector.
GetTopLabels(inferenceResult, numLabels) ==
  LET order == Reverse(ArgSortFrom(DOMAIN inferenceResult, inferenceResult))
      top   == SubSeq(order, 1, Min(Max(numLabels, 0), Len(order)))
  IN  [i \in 1..Len(top) |-> top[i] - 1]

\* The labels argument of winningLabels: a list of labels, or a dict of
\* label -> frequency as Counter also accepts.
ListArg(items) == [kind |-> "list", items |-> items]

DictArg(items) == [kind |-> "dict", items |-> items]

\* Counter(labels): label -> count; a list is counted, a dict is copied.
Counter(labels) ==
  IF labels.kind = "dict" THEN labels.items
  ELSE [l \in Range(labels.items) |->
          Cardinality({i \in 1..Len(labels.items) : labels.items[i] = l})]

RECURSIVE MostCommonOf(_, _)
\* Counter.most_common() of the keys S: sorted(iteritems(), key=count,
\* reverse=True), a stable sort, so labels of equal count keep the iteration
\* order of the dict, which for small label indices is ascending.
MostCommonOf(S, counter) ==
  IF S = {} THEN <<>>
  ELSE LET m == CHOOSE x \in S :
                  \A y \in S : counter[x] > counter[y] \/ (counter[x] = counter[y] /\ x <= y)
       IN  << <<m, counter[m]>> >> \o MostCommonOf(S \ {m}, counter)

MaxCountOfLast(labelCount) ==
  IF Len(labelCount) > 0 THEN labelCount[Len(labelCount)][2] ELSE 0

\* maxCount: "Max count stored in second entry of first tuple"
MaxCount(labelCount) == IF Len(labelCount) > 0 THEN labelCount[1][2] ELSE 0

RECURSIVE Winners(_, _)
\* winners = [c[0] for c in labelCount if c[1]==maxCount]
Winners(labelCount, maxCount) ==
  IF labelCount = <<>> THEN <<>>
  ELSE (IF labelCount[1][2] = maxCount THEN <<labelCount[1][1]>> ELSE <<>>)
         \o Winners(Tail(labelCount), maxCount)

\* winningLabels(labels, n=3), for n >= 0
winningLabels(labels, n) ==
  LET labelCount == MostCommonOf(DOMAIN Counter(labels), Counter(labels))
      winners    == Winners(labelCount, MaxCount(labelCount))
  IN  IF Len(winners) <= n THEN winners ELSE SubSeq(winners, 1, n)

\* The other model classes (ClassificationModelRandomSDR, ...): they learn the
\* (text, label) pairs they are trained on.
GenericResetModel(m) == [m EXCEPT !.memory = <<>>]

GenericTrainModel(m, sample, label) ==
  [m EXCEPT !.memory = Append(@, <<sample.text, label>>)]

\* Their inference: the frequency of each category among the learned pairs.
GenericInference(m, numCategories) ==
  [c \in 1..numCategories |->
     Cardinality({i \in 1..Len(m.memory) : m.memory[i][2] = c - 1})]

\* Their testModel: the top numLabels labels, or no prediction at all.
GenericTestModel(m, sample, numLabels, numCategories) ==
  {GetTopLabels(GenericInference(m, numCategories), numLabels), <<>>}

(***************************************************************************)
(* Scoring (classification_model.py).  classifications is the pair         *)
(* <<predicted, actual>>: predicted[i] is a prediction, either Python None *)
(* or a list of label indices, and actual[i] is a list of label indices.   *)
(* A call that raises returns a record whose err names the exception.      *)
(***************************************************************************)
Pred(labels) == [none |-> FALSE, labels |-> labels]

NonePred == [none |-> TRUE, labels |-> <<>>]

Verbosity == 1

\* len(numpy.intersect1d(aLabel, pLabel)): the number of distinct common values.
Intersect1dLen(aLabel, pLabel) ==
  Cardinality(Range(aLabel) \cap (IF pLabel.none THEN {} ELSE Range(pLabel.labels)))

\* currAccuracy = len(commonElems)/float(len(aLabel))
CurrAccuracy(aLabel, pLabel) == Rat(Intersect1dLen(aLabel, pLabel), Len(aLabel))

RECURSIVE RatSum(_)
RatSum(s) == IF s = <<>> THEN RatZero ELSE RatAdd(s[1], RatSum(Tail(s)))

RECURSIVE SelectIndices(_, _, _)
\* The indices i of lo..hi with keep[i], ascending.
SelectIndices(lo, hi, keep) ==
  IF lo > hi THEN <<>>
  ELSE (IF keep[lo] THEN <<lo>> ELSE <<>>) \o SelectIndices(lo + 1, hi, keep)

\* calculateAccuracy(classifications, samples, references); errors is the
\* local list of (aLabel, pLabel, sample) it collects.
calculateAccuracy(classifications, samples) ==
  LET predicted == classifications[1]
      actual    == classifications[2]
      n         == Min(Len(actual), Len(samples))
      failed(e) == [err |-> e, value |-> RatZero, errors |-> <<>>]
  IN  IF Len(predicted) # Len(actual) THEN failed("ValueError")
      ELSE IF \E i \in 1..n : Len(actual[i]) = 0 THEN failed("ZeroDivisionError")
      ELSE IF Len(actual) = 0 THEN failed("ZeroDivisionError")
      ELSE LET scores == [i \in 1..n |-> CurrAccuracy(actual[i], predicted[i])]
               wrong  == SelectIndices(1, n, [i \in 1..n |-> scores[i] # RatOne])
           IN  [err    |-> "",
                value  |-> RatDivInt(RatSum(scores), Len(actual)),
                errors |-> [j \in 1..Len(wrong) |->
                              [actual    |-> actual[wrong[j]],
                               predicted |-> predicted[wrong[j]],
                               sample    |-> samples[wrong[j]]]]]

\* The column of the confusion matrix that a prediction is counted in.
PredictedColumn(pLabel, total) == IF pLabel.none THEN total ELSE pLabel.labels[1]

\* Whether cm[aLabel[0]][pLabel[0]] += 1 raises IndexError.
CellIndexError(aLabel, pLabel, total) ==
  \/ Len(aLabel) = 0
  \/ aLabel[1] >= total
  \/ ~pLabel.none /\ Len(pLabel.labels) = 0
  \/ ~pLabel.none /\ Len(pLabel.labels) > 0 /\ pLabel.labels[1] >= total + 1

ConfusionBodySquare(predicted, actual, total) ==
  [r \in 1..(total + 1) |->
     [c \in 1..(total + 1) |->
        Cardinality({i \in 1..Len(actual) :
                       /\ actual[i][1] = r - 1
                       /\ PredictedColumn(predicted[i], total) = c - 1})]]

\* cm = numpy.zeros((total, total+1)) after the loop over the samples.
ConfusionBody(predicted, actual, total) ==
  [r \in 1..total |->
     [c \in 1..(total + 1) |->
        Cardinality({i \in 1..Len(actual) :
                       /\ actual[i][1] = r - 1
                       /\ PredictedColumn(predicted[i], total) = c - 1})]]

VStackSumsSkipLastRow(cm, numCols) ==
  Append(cm, [c \in 1..numCols |-> SumSeq([r \in 1..(Len(cm) - 1) |-> cm[r][c]])])

\* numpy.vstack((cm, numpy.sum(cm, axis=0)))
VStackColumnSums(cm, numCols) ==
  Append(cm, [c \in 1..numCols |-> SumSeq([r \in 1..Len(cm) |-> cm[r][c]])])

\* numpy.hstack((cm, numpy.sum(cm, axis=1).reshape(total+1, 1)))
HStackRowSums(cm) == [r \in 1..Len(cm) |-> Append(cm[r], SumSeq(cm[r]))]

\* calculateConfusionMatrix(classifications, references): the DataFrame.
calculateConfusionMatrix(classifications, references) ==
  LET predicted == classifications[1]
      actual    == classifications[2]
      total     == Len(references)
      failed(e) == [err |-> e, data |-> <<>>, columns |-> <<>>, index |-> <<>>]
  IN  IF Len(predicted) # Len(actual) THEN failed("ValueError")
      ELSE IF \E i \in 1..Len(actual) : CellIndexError(actual[i], predicted[i], total)
        THEN failed("IndexError")
      ELSE [err     |-> "",
            data    |-> HStackRowSums(
                          VStackColumnSums(ConfusionBody(predicted, actual, total),
                                           total + 1)),
            columns |-> references \o <<"(none)">> \o <<"Actual Totals">>,
            index   |-> references \o <<"Prediction Totals">>]

\* printTrialReport(labels, refs, idx, samples): the printed rows, or the
\* exception: labels[0][i][0] needs a non-empty prediction list, samples[i] and
\* idx[i] must exist.
printTrialReport(labels, refs, idx, samples) ==
  LET n == Len(labels[1])
  IN  IF \E i \in 1..n : i > Len(samples) \/ i > Len(labels[2]) THEN
        [err |-> "IndexError", rows |-> <<>>]
      ELSE IF \E i \in 1..n : labels[1][i].none THEN
        [err |-> "TypeError", rows |-> <<>>]
      ELSE IF \E i \in 1..n : Len(labels[1][i].labels) = 0 \/ i > Len(idx) THEN
        [err |-> "IndexError", rows |-> <<>>]
      ELSE
        [err  |-> "",
         rows |-> [i \in 1..n |->
                     [num       |-> idx[i],
                      actual    |-> labels[2][i],
                      predicted |-> labels[1][i],
                      sample    |-> samples[i][1]]]]

\* evaluateResults(classifications, references, idx, samples): (accuracy, cm).
evaluateResults(classifications, references, idx, samples) ==
  LET report   == printTrialReport(classifications, references, idx, samples)
      accuracy == calculateAccuracy(classifications, samples)
      cm       == calculateConfusionMatrix(classifications, references)
      failed(e) == [err |-> e, accuracy |-> RatZero, cm |-> <<>>,
                    report |-> <<>>, errors |-> <<>>]
  IN  IF Verbosity > 0 /\ report.err # "" THEN failed(report.err)
      ELSE IF accuracy.err # "" THEN failed(accuracy.err)
      ELSE IF cm.err # "" THEN failed(cm.err)
      ELSE [err |-> "", accuracy |-> accuracy.value, cm |-> cm.data,
            report |-> report.rows, errors |-> accuracy.errors]

(***************************************************************************)
(* Python floats in evaluateCumulativeResults: IEEE 754 binary64 values,   *)
(* non-negative and in the normal range.  A float is zero (no bits) or has  *)
(* a 53-bit significand, most significant bit first and equal to 1; its    *)
(* value is 0.b1 b2 ... b53 (binary) times 2^exp.  Every operation rounds  *)
(* to nearest, ties to even, as the hardware does.                         *)
(***************************************************************************)
MantissaBits == 53

\* Extra quotient bits computed by a division before rounding.
DivGuardBits == 12

Zeros(n) == <<>> \o [i \in 1..n |-> 0]

FloatZero == [bits |-> <<>>, exp |-> 0]

\* Number of leading zero bits.
LeadingZeros(bits) ==
  IF \A i \in 1..Len(bits) : bits[i] = 0 THEN Len(bits)
  ELSE (CHOOSE i \in 1..Len(bits) : bits[i] = 1 /\ \A j \in 1..(i - 1) : bits[j] = 0) - 1

\* bits + 1 for a significand that is not all ones.
Increment(bits) ==
  LET k == CHOOSE i \in 1..Len(bits) :
             bits[i] = 0 /\ \A j \in (i + 1)..Len(bits) : bits[j] = 1
  IN  <<>> \o [i \in 1..Len(bits) |-> IF i < k THEN bits[i] ELSE IF i = k THEN 1 ELSE 0]

\* The float nearest to 0.bits * 2^exp (plus a positive amount below the last
\* bit when sticky), ties to even.
RoundBits(bits, exp, sticky) ==
  LET lz    == LeadingZeros(bits)
      sig   == SubSeq(bits, lz + 1, Len(bits)) \o Zeros(MantissaBits + 1)
      head  == SubSeq(sig, 1, MantissaBits)
      guard == sig[MantissaBits + 1]
      rest  == sticky \/ \E i \in (MantissaBits + 2)..Len(sig) : sig[i] = 1
      up    == guard = 1 /\ (rest \/ head[MantissaBits] = 1)
  IN  IF lz = Len(bits) THEN FloatZero
      ELSE IF ~up THEN [bits |-> head, exp |-> exp - lz]
      ELSE IF \A i \in 1..MantissaBits : head[i] = 1
        THEN [bits |-> <<1>> \o Zeros(MantissaBits - 1), exp |-> exp - lz + 1]
      ELSE [bits |-> Increment(head), exp |-> exp - lz]

RECURSIVE IntBits(_)
\* The binary digits of a natural number, most significant first.
IntBits(n) == IF n = 0 THEN <<>> ELSE Append(IntBits(n \div 2), n % 2)

\* float(n) for a natural number n.
FloatOfInt(n) == RoundBits(IntBits(n), Len(IntBits(n)), FALSE)

\* Whether a + b carries into bit i: some bit to the right generates a carry
\* and every bit in between passes it on.
CarryInto(a, b, i) ==
  \E j \in (i + 1)..Len(a) :
     /\ a[j] = 1 /\ b[j] = 1
     /\ \A k \in (i + 1)..(j - 1) : a[k] + b[k] = 1

\* a + b for bit strings of equal length; the sum is one bit longer.
AddBits(a, b) ==
  <<>> \o [i \in 1..(Len(a) + 1) |->
            LET carry == IF CarryInto(a, b, i - 1) THEN 1 ELSE 0
            IN  IF i = 1 THEN carry ELSE (a[i - 1] + b[i - 1] + carry) % 2]

\* x + y
FloatAdd(x, y) ==
  IF x.bits = <<>> THEN y
  ELSE IF y.bits = <<>> THEN x
  ELSE LET hi == IF x.exp >= y.exp THEN x ELSE y
           lo == IF x.exp >= y.exp THEN y ELSE x
           d  == hi.exp - lo.exp
       IN  RoundBits(AddBits(hi.bits \o Zeros(d), Zeros(d) \o lo.bits),
                     hi.exp + 1, FALSE)

\* Number of bits that a division handles in one step.
ChunkBits == 13

\* The natural number with the binary digits bits, for a short bit string.
BitsValue(bits) == SumSeq([j \in 1..Len(bits) |-> bits[j] * 2^(Len(bits) - j)])

\* The k binary digits of the natural number v < 2^k.
ValueBits(v, k) == <<>> \o [j \in 1..k |-> (v \div 2^(k - j)) % 2]

RECURSIVE LongDivision(_, _, _)
\* Quotient bits and remainder of (rem * 2^Len(bits) + bits) by the natural
\* number n > rem, one chunk of bits at a time.
LongDivision(bits, n, rem) ==
  IF bits = <<>> THEN << <<>>, rem >>
  ELSE LET k    == Min(ChunkBits, Len(bits))
           v    == rem * 2^k + BitsValue(SubSeq(bits, 1, k))
           rest == LongDivision(SubSeq(bits, k + 1, Len(bits)), n, v % n)
       IN  << ValueBits(v \div n, k) \o rest[1], rest[2] >>

\* x / float(n) for a natural number 0 < n < 2^(DivGuardBits - 2).
FloatDivInt(x, n) ==
  IF x.bits = <<>> THEN FloatZero
  ELSE LET qr == LongDivision(x.bits \o Zeros(DivGuardBits), n, 0)
       IN  RoundBits(qr[1], x.exp, qr[2] # 0)

\* x <= y
FloatLeq(x, y) ==
  IF x.bits = <<>> THEN TRUE
  ELSE IF y.bits = <<>> THEN FALSE
  ELSE IF x.exp # y.exp THEN x.exp < y.exp
  ELSE \/ x.bits = y.bits
       \/ \E i \in 1..MantissaBits :
            /\ x.bits[i] < y.bits[i]
            /\ \A j \in 1..(i - 1) : x.bits[j] = y.bits[j]

\* The float of a ratio of two naturals, num/float(den).
Float(r) == FloatDivInt(FloatOfInt(r[1]), r[2])

RECURSIVE FloatSum(_, _)
\* sum(accuracy): the floats are added to the start value from left to right.
FloatSum(start, s) ==
  IF s = <<>> THEN start ELSE FloatSum(FloatAdd(start, s[1]), Tail(s))

RECURSIVE FloatMaxSeq(_)
\* max(accuracy)
FloatMaxSeq(s) ==
  IF Len(s) = 1 THEN s[1]
  ELSE LET m == FloatMaxSeq(Tail(s)) IN IF FloatLeq(m, s[1]) THEN s[1] ELSE m

RECURSIVE FloatMinSeq(_)
\* min(accuracy)
FloatMinSeq(s) ==
  IF Len(s) = 1 THEN s[1]
  ELSE LET m == FloatMinSeq(Tail(s)) IN IF FloatLeq(s[1], m) THEN s[1] ELSE m

Shape(cm) == <<Len(cm), IF Len(cm) = 0 THEN 0 ELSE Len(cm[1])>>

MatrixAddKeepsLast(a, b) == b

\* numpy.add(cm, result[1])
MatrixAdd(a, b) == [r \in 1..Len(a) |-> [c \in 1..Len(a[r]) |-> a[r][c] + b[r][c]]]

RECURSIVE MatrixSum(_, _)
MatrixSum(acc, ms) == IF ms = <<>> THEN acc ELSE MatrixSum(MatrixAdd(acc, ms[1]), Tail(ms))

\* evaluateCumulativeResults(intermResults), each result being (accuracy, cm).
\* result[0] is the float that calculateAccuracy returned, held by the model
\* as a ratio.
evaluateCumulativeResults(intermResults) ==
  LET failed(e) == [err |-> e, max_accuracy |-> FloatZero, mean_accuracy |-> FloatZero,
                    min_accuracy |-> FloatZero, total_cm |-> <<>>]
      accuracy  == [i \in 1..Len(intermResults) |-> Float(intermResults[i].accuracy)]
      cms       == [i \in 1..Len(intermResults) |-> intermResults[i].cm]
  IN  IF Len(intermResults) = 0 THEN failed("IndexError")
      ELSE IF \E i \in 1..Len(cms) : Shape(cms[i]) # Shape(cms[1]) THEN failed("ValueError")
      ELSE [err           |-> "",
            max_accuracy  |-> FloatMaxSeq(accuracy),
            mean_accuracy |-> FloatDivInt(FloatSum(FloatZero, accuracy), Len(accuracy)),
            min_accuracy  |-> FloatMinSeq(accuracy),
            total_cm      |-> MatrixSum([r \in 1..Len(cms[1]) |->
                                           [c \in 1..Len(cms[1][r]) |-> 0]], cms)]

(***************************************************************************)
(* The experiment run (baseline_experiment.py, run and below).             *)
(***************************************************************************)
VARIABLES
  args,           \* the command line: dataFile (is a file), kFolds, train, test, load,
                  \* modelName, expectation (expectationDataPath is given)
  rows,           \* the data file
  pc,             \* position in run(): verify, load, encode, ..., done, error
  err,            \* the exception that ended the run ("" if none)
  model,          \* the model object's learned state
  partitions,     \* the folds <<trainIndices, evalIndices>> of the k-fold run
  fold,           \* k, the index of the current fold
  pos,            \* position of training()/testing() in its list
  trialResults,   \* <<predicted, actual>> of the testing() call under way
  intermResults,  \* the per-fold results so far
  resultMetrics,  \* the result of the test-all path (at most one)
  results,        \* the cumulative result (at most one)
  log,            \* every call made on the model, in order
  saved,          \* whether the model was pickled at the end of the run
  initialModel,   \* the model object as loaded or constructed by run()
  predictions,    \* per fold, the top prediction of each evaluated sample as a label string
  expectedAccuracy, \* what computeExpectedAccuracy compared and printed (at most one)
  call            \* the last direct call of a scoring function (SpecPure)

runVars == <<args, rows, pc, err, model, partitions, fold, pos, trialResults,
             intermResults, resultMetrics, results, log, saved, initialModel, predictions, expectedAccuracy>>

vars == <<args, rows, pc, err, model, partitions, fold, pos, trialResults,
          intermResults, resultMetrics, results, log, saved, call, initialModel, predictions, expectedAccuracy>>

ModelNames == {"ClassificationModelEndpoint", "ClassificationModelRandomSDR"}

\* The expectation file is read by the k-fold branch only; the runs with one
\* are k-fold runs of a freshly constructed model.
ArgsSet ==
  { a \in [dataFile : BOOLEAN, kFolds : 0..MaxFolds, train : BOOLEAN, test : BOOLEAN,
           load : BOOLEAN, modelName : ModelNames, expectation : BOOLEAN] :
      a.expectation => a.dataFile /\ a.kFolds > 1 /\ ~a.train /\ ~a.test /\ ~a.load }

NoCall == [fn |-> "none"]

N == Len(rows)

IsEndpoint == args.modelName = "ClassificationModelEndpoint"

\* A sample that is not part of any data file of the run.
PriorSample == EncodePattern(Tokenize(0))

\* pkl.load: the model saved by an earlier run, untrained or trained.
PickledModels(modelName) ==
  IF modelName = "ClassificationModelEndpoint"
    THEN {UntrainedModel, trainModel(UntrainedModel, PriorSample, 0)}
    ELSE {UntrainedModel, GenericTrainModel(UntrainedModel, PriorSample, 0)}

Entry(op, idx, label, numLabels, ret, ok) ==
  [op |-> op, idx |-> idx, label |-> label, numLabels |-> numLabels, ret |-> ret, ok |-> ok]

RaiseAndGoOn(e) == pc' = "save" /\ err' = e

\* An exception that nothing in run() catches ends the run.
Raise(e) == pc' = "error" /\ err' = e

Init ==
  /\ args \in ArgsSet
  /\ rows \in DataSets
  /\ pc = "verify"
  /\ err = ""
  /\ model = UntrainedModel
  /\ partitions = <<>>
  /\ fold = 0
  /\ pos = 0
  /\ trialResults = <<<<>>, <<>>>>
  /\ intermResults = <<>>
  /\ resultMetrics = <<>>
  /\ results = <<>>
  /\ log = <<>>
  /\ saved = FALSE
  /\ initialModel = UntrainedModel
  /\ predictions = <<>>
  /\ expectedAccuracy = <<>>
  /\ call = NoCall

\* "Verify input params."
InvalidParams(a) ==
  \/ ~a.dataFile
  \/ a.kFolds < 1
  \/ (a.train \/ a.test) /\ a.kFolds > 1

VerifyParams ==
  /\ pc = "verify"
  /\ IF InvalidParams(args) THEN Raise("ValueError")
     ELSE pc' = "load" /\ err' = err
  /\ UNCHANGED <<args, rows, model, partitions, fold, pos, trialResults,
                 intermResults, resultMetrics, results, log, saved, call, initialModel, predictions, expectedAccuracy>>

\* "Load or init model."
LoadOrInitModel ==
  /\ pc = "load"
  /\ IF args.load
       THEN /\ model' \in PickledModels(args.modelName)
            /\ pc' = "encode" /\ err' = err
       ELSE IF ~InitTakesMulticlass(args.modelName)
         THEN Raise("TypeError") /\ model' = model
         ELSE model' = UntrainedModel /\ pc' = "encode" /\ err' = err
  /\ initialModel' = model'
  /\ UNCHANGED <<args, rows, partitions, fold, pos, trialResults,
                 intermResults, resultMetrics, results, log, saved, call,
                 predictions, expectedAccuracy>>

AfterTrainAllTests(a) == "test_all"

\* The branch of run() taken after the train-all block.
AfterTrainAll(a) ==
  IF a.test THEN "test_all" ELSE IF a.kFolds > 1 THEN "partition" ELSE "random"

\* "Either we train on all the data, test on all the data, or run k-fold CV."
AfterEncode(a) == IF a.train THEN "train_all" ELSE AfterTrainAll(a)

\* setupData and "Encoding the data.": one encodePattern call per sample.
EncodeData ==
  /\ pc = "encode"
  /\ log' = log \o [j \in 1..N |-> Entry("encodePattern", j - 1, -1, -1, <<>>, TRUE)]
  /\ pc' = AfterEncode(args)
  /\ pos' = 0
  /\ UNCHANGED <<args, rows, err, model, partitions, fold, trialResults,
                 intermResults, resultMetrics, results, saved, call, initialModel, predictions, expectedAccuracy>>

\* model.trainModel(x[0], x[1]) / model.resetModel() on the run's model class.
ModelTrain(m, sample, label) ==
  IF IsEndpoint THEN trainModel(m, sample, label) ELSE GenericTrainModel(m, sample, label)

ModelReset(m) == IF IsEndpoint THEN resetModel(m) ELSE GenericResetModel(m)

\* One iteration of training(model, trainSet): trainSet[pos] is sample index idx,
\* paired with label; the call either returns or raises.
TrainingStep(idx, label, last, after) ==
  LET sample == Patterns(rows)[idx + 1][1]
  IN  \/ /\ model' = ModelTrain(model, sample, label)
         /\ log' = Append(log, Entry("trainModel", idx, label, -1, <<>>, TRUE))
         /\ IF last THEN pc' = after /\ pos' = 0 ELSE pc' = pc /\ pos' = pos + 1
         /\ err' = err
      \/ /\ log' = Append(log, Entry("trainModel", idx, label, -1, <<>>, FALSE))
         /\ Raise("ModelError")
         /\ UNCHANGED <<model, pos>>

\* One iteration of testing(model, evalSet): evalSet[pos] is sample index idx.
TestingStep(idx, last, after) ==
  LET x         == Patterns(rows)[idx + 1]
      numLabels == Len(x[2])
  IN  IF ~TestModelTakesNumLabels(args.modelName)
        THEN /\ log' = Append(log, Entry("testModel", idx, -1, numLabels, <<>>, FALSE))
             /\ Raise("TypeError")
             /\ UNCHANGED <<trialResults, pos>>
        ELSE \/ \E predicted \in GenericTestModel(model, x[1], numLabels,
                                                  Len(LabelReference(rows))) :
                  /\ log' = Append(log, Entry("testModel", idx, -1, numLabels, predicted, TRUE))
                  /\ trialResults' = << Append(trialResults[1], Pred(predicted)),
                                        Append(trialResults[2], x[2]) >>
                  /\ IF last THEN pc' = after /\ pos' = 0 ELSE pc' = pc /\ pos' = pos + 1
                  /\ err' = err
             \/ /\ log' = Append(log, Entry("testModel", idx, -1, numLabels, <<>>, FALSE))
                /\ Raise("ModelError")
                /\ UNCHANGED <<trialResults, pos>>

\* if args.train: training(model, [(p[0], labels[i]) for i, p in enumerate(patterns)])
TrainAllStep ==
  /\ pc = "train_all"
  /\ pos < N
  /\ TrainingStep(pos, Labels(rows)[pos + 1], pos + 1 = N, AfterTrainAll(args))
  /\ UNCHANGED <<args, rows, partitions, fold, trialResults,
                 intermResults, resultMetrics, results, saved, call, initialModel, predictions, expectedAccuracy>>

\* if args.test: results = testing(model, evalSet) over all patterns
TestAllStep ==
  /\ pc = "test_all"
  /\ pos < N
  /\ TestingStep(pos, pos + 1 = N, "test_score")
  /\ UNCHANGED <<args, rows, model, partitions, fold,
                 intermResults, resultMetrics, results, saved, call, initialModel, predictions, expectedAccuracy>>

\* xrange(len(samples))
XRange(n) == [j \in 1..n |-> j - 1]

\* resultMetrics = calculateResults(model, results, labelReference, xrange(len(samples)), ...)
TestAllScore ==
  /\ pc = "test_score"
  /\ LET r == evaluateResults(trialResults, LabelReference(rows), XRange(N), SetupData(rows))
     IN  /\ log' = Append(log, Entry("evaluateResults", -1, -1, -1, <<>>, r.err = ""))
         /\ IF r.err # "" THEN Raise(r.err) /\ resultMetrics' = resultMetrics
            ELSE resultMetrics' = <<r>> /\ pc' = "random" /\ err' = err
  /\ UNCHANGED <<args, rows, model, partitions, fold, pos, trialResults,
                 intermResults, results, saved, call, initialModel, predictions, expectedAccuracy>>

\* partitions = KFolds(args.kFolds).split(range(len(samples)), randomize=True)
Partition ==
  /\ pc = "partition"
  /\ IF args.kFolds > N
       THEN Raise("ValueError") /\ partitions' = partitions
       ELSE /\ \E perm \in Permutations0(N) : partitions' = KFoldsSplit(perm, args.kFolds)
            /\ pc' = "fold_reset" /\ err' = err
  /\ fold' = 0
  /\ UNCHANGED <<args, rows, model, pos, trialResults,
                 intermResults, resultMetrics, results, log, saved, call, initialModel, predictions, expectedAccuracy>>

\* idxSplits[0] is train, idxSplits[1] is eval
TrainIndices(idxSplits) == idxSplits[1]

EvalIndicesFromTrainSide(idxSplits) == idxSplits[1]

EvalIndices(idxSplits) == idxSplits[2]

\* runExperiment: model.resetModel()
FoldReset ==
  /\ pc = "fold_reset"
  /\ model' = ModelReset(model)
  /\ log' = Append(log, Entry("resetModel", -1, -1, -1, <<>>, TRUE))
  /\ trialResults' = <<<<>>, <<>>>>
  /\ pos' = 0
  /\ pc' = "fold_train"
  /\ UNCHANGED <<args, rows, err, partitions, fold,
                 intermResults, resultMetrics, results, saved, call, initialModel, predictions, expectedAccuracy>>

\* runExperiment: training(model, [(patterns[i][0], labels[i]) for i in idxSplits[0]])
FoldTrainStep ==
  /\ pc = "fold_train"
  /\ LET train == TrainIndices(partitions[fold + 1])
     IN  /\ pos < Len(train)
         /\ TrainingStep(train[pos + 1], Labels(rows)[train[pos + 1] + 1],
                         pos + 1 = Len(train), "fold_test")
  /\ UNCHANGED <<args, rows, partitions, fold, trialResults,
                 intermResults, resultMetrics, results, saved, call, initialModel, predictions, expectedAccuracy>>

\* runExperiment: return testing(model, evalSet) over idxSplits[1]
FoldTestStep ==
  /\ pc = "fold_test"
  /\ LET eval == EvalIndices(partitions[fold + 1])
     IN  /\ pos < Len(eval)
         /\ TestingStep(eval[pos + 1], pos + 1 = Len(eval), "fold_score")
  /\ UNCHANGED <<args, rows, model, partitions, fold,
                 intermResults, resultMetrics, results, saved, call, initialModel, predictions, expectedAccuracy>>

AfterFoldEndsEarly(k, kFolds) == "cumulative"

\* bool(l) of a prediction l, the numpy array that _getTopLabels returns: an
\* empty array is false, an array of one entry has the truth value of that
\* entry, and a longer array raises ValueError.
ArrayTruth(l) ==
  IF Len(l) = 0 THEN "false"
  ELSE IF Len(l) > 1 THEN "ValueError"
  ELSE IF l[1] # 0 THEN "true" ELSE "false"

\* [l if l else [None]] and then
\* labelReference[idx[0]] if idx[0] != None else '(none)'
TopPrediction(pLabel, refs) ==
  IF ~pLabel.none /\ ArrayTruth(pLabel.labels) = "true"
    THEN refs[pLabel.labels[1] + 1]
    ELSE "(none)"

TopPredictions(predicted, refs) ==
  [i \in 1..Len(predicted) |-> TopPrediction(predicted[i], refs)]

TopPredictionsRaise(predicted) ==
  \E i \in 1..Len(predicted) :
     ~predicted[i].none /\ ArrayTruth(predicted[i].labels) = "ValueError"

\* The position in run() after fold k is scored.
AfterFold(k, kFolds) == IF k + 1 < kFolds THEN "fold_reset" ELSE "cumulative"

\* if args.expectationDataPath: predictions.append(...), then
\* intermResults.append(calculateResults(model, trialResults, labelReference,
\*                                       partitions[k][1], ..., samples))
FoldScore ==
  /\ pc = "fold_score"
  /\ IF args.expectation /\ TopPredictionsRaise(trialResults[1])
       THEN /\ Raise("ValueError")
            /\ UNCHANGED <<intermResults, fold, log, predictions>>
       ELSE /\ predictions' =
                 IF args.expectation
                   THEN Append(predictions,
                               TopPredictions(trialResults[1], LabelReference(rows)))
                   ELSE predictions
            /\ LET r == evaluateResults(trialResults, LabelReference(rows),
                                        partitions[fold + 1][2], SetupData(rows))
               IN  /\ log' = Append(log, Entry("evaluateResults", fold, -1, -1, <<>>,
                                               r.err = ""))
                   /\ IF r.err # ""
                        THEN Raise(r.err) /\ UNCHANGED <<intermResults, fold>>
                        ELSE /\ intermResults' = Append(intermResults, [fold |-> fold] @@ r)
                             /\ pc' = AfterFold(fold, args.kFolds)
                             /\ fold' = fold + 1
                             /\ err' = err
  /\ UNCHANGED <<args, rows, model, partitions, pos, trialResults,
                 resultMetrics, results, saved, call, initialModel, expectedAccuracy>>

\* The position in run() after the cumulative results.
AfterCumulative(a) == IF a.expectation THEN "expected" ELSE "random"

\* results = model.evaluateCumulativeResults(intermResults)
Cumulative ==
  /\ pc = "cumulative"
  /\ LET r == evaluateCumulativeResults(intermResults)
     IN  /\ log' = Append(log, Entry("evaluateCumulativeResults", -1, -1,
                                     Len(intermResults), <<>>, r.err = ""))
         /\ IF r.err # "" THEN Raise(r.err) /\ results' = results
            ELSE results' = <<r>> /\ pc' = AfterCumulative(args) /\ err' = err
  /\ UNCHANGED <<args, rows, model, partitions, fold, pos, trialResults,
                 intermResults, resultMetrics, saved, call, initialModel,
                 predictions, expectedAccuracy>>

RECURSIVE Chain(_)
\* list(itertools.chain.from_iterable(lists))
Chain(lists) == IF lists = <<>> THEN <<>> ELSE lists[1] \o Chain(Tail(lists))

\* The label string of each row of the data file.
GoldStrings(rs) == [i \in 1..Len(rs) |-> LabelReference(rs)[rs[i].label + 1]]

\* readCSV(dataPath, 2, [3]) of the expectation file (external): one expected
\* label string per line.  The files taken are the data's own label strings,
\* for every line or for all but the last.
ExpectedLabelFiles(rs) ==
  {GoldStrings(rs), SubSeq(GoldStrings(rs), 1, Len(rs) - 1)}

\* computeExpectedAccuracy(predictedLabels, dataPath), which prints the accuracy.
computeExpectedAccuracy(predictedLabels, expectedLabels) ==
  IF Len(expectedLabels) # Len(predictedLabels)
    THEN [err |-> "ValueError", expectedLabels |-> expectedLabels,
          predictedLabels |-> predictedLabels, accuracy |-> RatZero]
  ELSE IF Len(expectedLabels) = 0
    THEN [err |-> "ZeroDivisionError", expectedLabels |-> expectedLabels,
          predictedLabels |-> predictedLabels, accuracy |-> RatZero]
  ELSE [err |-> "", expectedLabels |-> expectedLabels,
        predictedLabels |-> predictedLabels,
        accuracy |-> Rat(Cardinality({i \in 1..Len(expectedLabels) :
                                        expectedLabels[i] = predictedLabels[i]}),
                         Len(expectedLabels))]

\* if args.expectationDataPath: computeExpectedAccuracy(chain of predictions, path)
CompareWithExpected ==
  /\ pc = "expected"
  /\ \E expectedLabels \in ExpectedLabelFiles(rows) :
       LET r == computeExpectedAccuracy(Chain(predictions), expectedLabels)
       IN  /\ expectedAccuracy' = <<r>>
           /\ IF r.err # "" THEN Raise(r.err)
              ELSE pc' = "random" /\ err' = err
  /\ UNCHANGED <<args, rows, model, partitions, fold, pos, trialResults,
                 intermResults, resultMetrics, results, log, saved, call, initialModel,
                 predictions>>

\* model.classifyRandomly(labels): numpy.random.randint(0, labels.max(), ...)
\* raises ValueError unless labels.max() > 0.
ClassifyRandomly ==
  /\ pc = "random"
  /\ IF \A j \in 1..N : Labels(rows)[j] <= 0 THEN Raise("ValueError")
     ELSE pc' = "save" /\ err' = err
  /\ UNCHANGED <<args, rows, model, partitions, fold, pos, trialResults,
                 intermResults, resultMetrics, results, log, saved, call, initialModel, predictions, expectedAccuracy>>

\* pkl.dump(model, f)
SaveModel ==
  /\ pc = "save"
  /\ saved' = TRUE
  /\ pc' = "done"
  /\ UNCHANGED <<args, rows, err, model, partitions, fold, pos, trialResults,
                 intermResults, resultMetrics, results, log, call, initialModel, predictions, expectedAccuracy>>

Next ==
  \/ VerifyParams
  \/ LoadOrInitModel
  \/ EncodeData
  \/ TrainAllStep
  \/ TestAllStep
  \/ TestAllScore
  \/ Partition
  \/ FoldReset
  \/ FoldTrainStep
  \/ FoldTestStep
  \/ FoldScore
  \/ Cumulative
  \/ CompareWithExpected
  \/ ClassifyRandomly
  \/ SaveModel

Spec == Init /\ [][Next]_vars

(***************************************************************************)
(* Direct calls of the scoring functions on bounded inputs.                *)
(***************************************************************************)
\* The lists of at most MaxLabels label indices below total.
LabelLists(total) ==
  UNION {[1..n -> 0..(total - 1)] : n \in 0..MaxLabels}

\* What a model may return for one sample: None, or a list of distinct labels.
Predictions(total) ==
  {NonePred} \cup
  {Pred(l) : l \in {q \in LabelLists(total) :
                      \A i, j \in 1..Len(q) : q[i] = q[j] => i = j}}

\* <<predicted, actual>> of one evaluated sample.
ScoredPairs(total) == Predictions(total) \X LabelLists(total)

\* A hit, a sample without prediction, and a miss.
BasicPairs(total) ==
  { <<Pred(<<0>>), <<0>>>>, <<NonePred, <<0>>>>, <<Pred(<<0>>), <<total - 1>>>> }

\* The sequences of at most MaxEval evaluated samples: any sample last, after
\* samples drawn from BasicPairs.
ScoredSeqs(total) ==
  {<<>>} \cup
  UNION { {Append(ctx, p) : <<ctx, p>> \in [1..n -> BasicPairs(total)] \X ScoredPairs(total)} :
            n \in 0..(MaxEval - 1) }

\* The classifications argument for a sequence of evaluated samples; with
\* extra, the predicted list is one longer than the actual list.
Classifications(pairs, extra) ==
  << [i \in 1..Len(pairs) |-> pairs[i][1]] \o (IF extra THEN <<Pred(<<0>>)>> ELSE <<>>),
     [i \in 1..Len(pairs) |-> pairs[i][2]] >>

\* The samples argument: the run's sample list, which holds the evaluated
\* samples first and is at least as long as the actual list.
SamplesFor(pairs, more) ==
  [i \in 1..(Len(pairs) + more) |->
     <<Tokenize(i), IF i <= Len(pairs) THEN pairs[i][2] ELSE <<0>>>>]

IdleArgs ==
  [dataFile |-> TRUE, kFolds |-> 1, train |-> FALSE, test |-> FALSE,
   load |-> FALSE, modelName |-> "ClassificationModelRandomSDR", expectation |-> FALSE]

InitPure ==
  /\ args = IdleArgs
  /\ rows = <<[text |-> 1, label |-> 0]>>
  /\ pc = "idle"
  /\ err = ""
  /\ model = UntrainedModel
  /\ partitions = <<>>
  /\ fold = 0
  /\ pos = 0
  /\ trialResults = <<<<>>, <<>>>>
  /\ intermResults = <<>>
  /\ resultMetrics = <<>>
  /\ results = <<>>
  /\ log = <<>>
  /\ saved = FALSE
  /\ initialModel = UntrainedModel
  /\ predictions = <<>>
  /\ expectedAccuracy = <<>>
  /\ call = NoCall

CallCalculateAccuracy ==
  /\ call.fn = "none"
  /\ \E total \in 1..MaxLabels, extra \in BOOLEAN, more \in 0..1 :
       \E pairs \in ScoredSeqs(total) :
         LET c == Classifications(pairs, extra)
             s == SamplesFor(pairs, more)
         IN  call' = [fn |-> "calculateAccuracy", classifications |-> c,
                      samples |-> s, references |-> SubSeq(LabelNames, 1, total),
                      out |-> calculateAccuracy(c, s)]
  /\ UNCHANGED runVars

CallCalculateConfusionMatrix ==
  /\ call.fn = "none"
  /\ \E total \in 1..MaxLabels, extra \in BOOLEAN :
       \E pairs \in ScoredSeqs(total) :
         LET c == Classifications(pairs, extra)
             r == SubSeq(LabelNames, 1, total)
         IN  call' = [fn |-> "calculateConfusionMatrix", classifications |-> c,
                      samples |-> <<>>, references |-> r,
                      out |-> calculateConfusionMatrix(c, r)]
  /\ UNCHANGED runVars

\* trialResults of a fold of FoldSize single-label samples, all predicted as
\* label 0, of which the first hits are label 0 and the others the last label.
FoldClassifications(hits, total) ==
  << [i \in 1..FoldSize |-> Pred(<<0>>)],
     [i \in 1..FoldSize |-> IF i <= hits THEN <<0>> ELSE <<total - 1>>] >>

\* What calculateResults returns for such a fold: (accuracy, cm).
TrialResult(hits, total) ==
  LET c == FoldClassifications(hits, total)
      r == evaluateResults(c, SubSeq(LabelNames, 1, total), XRange(FoldSize),
                           [i \in 1..FoldSize |-> <<Tokenize(i), c[2][i]>>])
  IN  [accuracy |-> r.accuracy, cm |-> r.cm]

\* Trial results over two labels, and one over a single label (whose
\* confusion matrix has another shape).
TrialResults ==
  {TrialResult(hits, 2) : hits \in 0..FoldSize} \cup {TrialResult(FoldSize, 1)}

\* The intermResults lists of at most MaxFolds trial results.
IntermResultLists == UNION {[1..n -> TrialResults] : n \in 0..MaxFolds}

CallEvaluateCumulativeResults ==
  /\ call.fn = "none"
  /\ \E ir \in IntermResultLists :
       call' = [fn |-> "evaluateCumulativeResults", intermResults |-> ir,
                out |-> evaluateCumulativeResults(ir)]
  /\ UNCHANGED runVars

\* n of winningLabels when the caller passes none.
DefaultN == 3

\* The label lists and the label -> frequency dicts passed to winningLabels.
WinningLabelsArgs ==
  {ListArg(l) : l \in UNION {[1..k -> 0..(MaxCategories - 1)] : k \in 0..(MaxLabels + 1)}}
    \cup {DictArg(f) : f \in [0..(MaxCategories - 1) -> 0..MaxVotes]}

CallWinningLabels ==
  /\ call.fn = "none"
  /\ \E labels \in WinningLabelsArgs, n \in {1, DefaultN, MaxCategories} :
       call' = [fn |-> "winningLabels", labels |-> labels, n |-> n,
                out |-> winningLabels(labels, n)]
  /\ UNCHANGED runVars

\* The frequency of each of MaxCategories categories, as a model's inference
\* returns it.
InferenceResults == [1..MaxCategories -> 0..MaxLabels]

CallGetTopLabels ==
  /\ call.fn = "none"
  /\ \E inferenceResult \in InferenceResults, numLabels \in 0..(MaxCategories + 1) :
       call' = [fn |-> "_getTopLabels", inferenceResult |-> inferenceResult,
                numLabels |-> numLabels,
                out |-> GetTopLabels(inferenceResult, numLabels)]
  /\ UNCHANGED runVars

NextPure ==
  \/ CallCalculateAccuracy
  \/ CallCalculateConfusionMatrix
  \/ CallEvaluateCumulativeResults
  \/ CallWinningLabels
  \/ CallGetTopLabels

SpecPure == InitPure /\ [][NextPure]_vars

(***************************************************************************)
(* Properties of the run (checked under Spec).                             *)
(***************************************************************************)
\* A run that asks for k-fold cross validation only.
KFoldRun == args.dataFile /\ args.kFolds > 1 /\ ~args.train /\ ~args.test

\* A run that asks for training on all the data (with kFolds = 1).
TrainAllRun == args.dataFile /\ args.kFolds = 1 /\ args.train

GoldLabels(idx) == SetupData(rows)[idx + 1][2]

IsModelCall(e) == e.op # "encodePattern"

IsTrainCall(e) == e.op = "trainModel"

IsTestCall(e) == e.op = "testModel"

ModelCalls == SelectSeq(log, IsModelCall)

TrainCalls == SelectSeq(log, IsTrainCall)

TestCalls == SelectSeq(log, IsTestCall)

Sigs(s) == [j \in 1..Len(s) |-> <<s[j].op, s[j].idx>>]

Idxs(s) == [j \in 1..Len(s) |-> s[j].idx]

NoRepeats(s) == \A i, j \in 1..Len(s) : s[i] = s[j] => i = j

\* The calls of fold f (0-based), as <<operation, index>> pairs.
ExpectedFoldCalls(f) ==
  LET tr == partitions[f + 1][1]
      ev == partitions[f + 1][2]
  IN  <<<<"resetModel", -1>>>>
      \o [j \in 1..Len(tr) |-> <<"trainModel", tr[j]>>]
      \o [j \in 1..Len(ev) |-> <<"testModel", ev[j]>>]
      \o <<<<"evaluateResults", f>>>>

RECURSIVE ExpectedFoldsFrom(_)
ExpectedFoldsFrom(f) ==
  IF f >= Len(partitions) THEN <<>>
  ELSE ExpectedFoldCalls(f) \o ExpectedFoldsFrom(f + 1)

ExpectedKFoldCalls == ExpectedFoldsFrom(0) \o <<<<"evaluateCumulativeResults", -1>>>>

RunOver == pc \in {"expected", "random", "save", "done"}

\* C1: in a K_FOLD run the calls on the model are, fold by fold in the order
\* 0..k-1, resetModel, trainModel for each train index, testModel for each eval
\* index, evaluateResults; nothing of a later fold comes earlier; and
\* evaluateCumulativeResults is called once, after all k folds, on the k trial
\* results in fold order.
C1_KFoldCallOrder ==
  KFoldRun =>
    /\ partitions = <<>> => ModelCalls = <<>>
    /\ partitions # <<>> =>
         /\ Len(partitions) = args.kFolds
         /\ IsPrefix(Sigs(ModelCalls), ExpectedKFoldCalls)
         /\ RunOver =>
              /\ Sigs(ModelCalls) = ExpectedKFoldCalls
              /\ log[Len(log)].numLabels = args.kFolds
              /\ Len(intermResults) = args.kFolds
              /\ \A f \in 1..Len(intermResults) :
                   /\ intermResults[f].fold = f - 1
                   /\ [j \in 1..Len(intermResults[f].report) |->
                         intermResults[f].report[j].num] = partitions[f][2]

C1_Witness ==
  /\ KFoldRun /\ pc = "done" /\ N = 3 /\ args.kFolds = 2
  /\ Len(results) = 1

RECURSIVE TrainedOn(_, _)
\* The endpoint model m after trainModel on the samples idxs, each with the
\* label of its row.
TrainedOn(m, idxs) ==
  IF idxs = <<>> THEN m
  ELSE TrainedOn(trainModel(m, Patterns(rows)[idxs[1] + 1][1], rows[idxs[1] + 1].label),
                 Tail(idxs))

\* C2: resetModel of the endpoint model gives the untrained state whatever was
\* trained before, a second reset changes nothing, and while a fold is trained
\* and tested the model state is that of an untrained model trained on this
\* fold's training samples only.
C2_ResetClearsLearnedState ==
  IsEndpoint /\ pc \notin {"verify", "load"} =>
    /\ resetModel(model) = UntrainedModel
    /\ resetModel(resetModel(model)) = resetModel(model)
    /\ pc = "fold_train" =>
         model = TrainedOn(UntrainedModel, SubSeq(partitions[fold + 1][1], 1, pos))
    /\ pc = "fold_test" =>
         model = TrainedOn(UntrainedModel, partitions[fold + 1][1])

C2_Witness ==
  /\ IsEndpoint /\ pc = "fold_test"
  /\ initialModel # UntrainedModel
  /\ Len(partitions[fold + 1][1]) >= 2
  /\ model # UntrainedModel

ProtocolsRequested(a) ==
  (IF a.train THEN 1 ELSE 0) + (IF a.test THEN 1 ELSE 0) + (IF a.kFolds > 1 THEN 1 ELSE 0)

\* C3 (as claimed): whenever more than one of TRAIN_ALL, TEST_ALL and K_FOLD
\* is requested, the run fails before any encode, train or test call is made
\* on the model.
C3_AsClaimed == ProtocolsRequested(args) > 1 => log = <<>>

\* The eval index sets of the folds are pairwise disjoint, cover 0..n-1, and
\* each has floor(n/k) or ceil(n/k) elements.
FoldsPartition(parts, n, k) ==
  /\ Len(parts) = k
  /\ \A f \in 1..k :
       /\ NoRepeats(parts[f][2])
       /\ Len(parts[f][2]) \in {n \div k, (n + k - 1) \div k}
  /\ \A f, g \in 1..k : f # g => Range(parts[f][2]) \cap Range(parts[g][2]) = {}
  /\ UNION {Range(parts[f][2]) : f \in 1..k} = 0..(n - 1)

\* C4: the folds of the split of 0..N-1 into k parts, 1 <= k <= N, shuffled or
\* not, have eval sets that partition the indices in sizes floor(N/k) or
\* ceil(N/k); and a K_FOLD run tests every sample in exactly one fold.
C4_EvalFoldsPartition ==
  /\ \A k \in 1..N : FoldsPartition(KFoldsSplit(XRange(N), k), N, k)
  /\ partitions # <<>> => FoldsPartition(partitions, N, args.kFolds)
  /\ KFoldRun /\ partitions # <<>> =>
       /\ NoRepeats(Idxs(TestCalls))
       /\ pc = "fold_score" =>
            Range(Idxs(TestCalls)) = UNION {Range(partitions[f][2]) : f \in 1..(fold + 1)}
       /\ pc \in {"cumulative", "expected", "random", "save", "done"} =>
            Range(Idxs(TestCalls)) = 0..(N - 1)

C4_Witness ==
  /\ KFoldRun /\ pc = "done" /\ N = 3 /\ args.kFolds = 2
  /\ partitions[1][2] # <<0, 1>>
  /\ Len(TestCalls) = 3

\* The train indices of all folds, in fold order.
RECURSIVE TrainIndicesFrom(_)
TrainIndicesFrom(f) ==
  IF f > Len(partitions) THEN <<>> ELSE partitions[f][1] \o TrainIndicesFrom(f + 1)

ExpectedTrainOrder ==
  IF TrainAllRun THEN XRange(N)
  ELSE IF KFoldRun /\ partitions # <<>> THEN TrainIndicesFrom(1)
  ELSE <<>>

TrainOncePerSampleInOrder ==
  /\ IsPrefix(Idxs(TrainCalls), ExpectedTrainOrder)
  /\ RunOver => Idxs(TrainCalls) = ExpectedTrainOrder

\* C5 (as claimed): trainModel is called once per training sample in input
\* order, and the label argument of each call is the sample's full gold label
\* set.
C5_AsClaimed ==
  /\ TrainOncePerSampleInOrder
  /\ \A j \in 1..Len(TrainCalls) :
       {TrainCalls[j].label} = Range(GoldLabels(TrainCalls[j].idx))

\* C5 (amended): trainModel is called once per training sample in input
\* order, and the label argument of each call is the single label of that
\* sample's own data row, which is one of the sample's gold labels.
C5_TrainOncePerSampleOwnLabel ==
  /\ TrainOncePerSampleInOrder
  /\ \A j \in 1..Len(TrainCalls) :
       /\ TrainCalls[j].label = rows[TrainCalls[j].idx + 1].label
       /\ TrainCalls[j].label \in Range(GoldLabels(TrainCalls[j].idx))

C5_Witness ==
  /\ TrainAllRun /\ pc = "done" /\ N >= 2
  /\ Len(TrainCalls) = N
  /\ \E j \in 1..N : Cardinality(Range(GoldLabels(j - 1))) >= 2

\* The samples of the testing() call under way or just finished.
CurrentEvalSet ==
  IF pc \in {"test_all", "test_score"} THEN XRange(N) ELSE partitions[fold + 1][2]

\* testing() has called testModel once per sample so far, in input order, with
\* numLabels the number of actual labels, and holds each prediction and the
\* actual labels at the sample's position; when it returns, both lists are as
\* long as evalSet.
TestingAligned ==
  pc \in {"test_all", "test_score", "fold_test", "fold_score"} =>
    LET done == Len(trialResults[1])
        base == Len(log) - done
    IN  /\ Len(trialResults[2]) = done
        /\ done <= Len(CurrentEvalSet)
        /\ pc \in {"test_score", "fold_score"} => done = Len(CurrentEvalSet)
        /\ pc \in {"test_all", "fold_test"} => done = pos
        /\ base >= 0
        /\ \A j \in 1..done :
             LET e == log[base + j]
             IN  /\ e.op = "testModel" /\ e.ok
                 /\ e.idx = CurrentEvalSet[j]
                 /\ e.numLabels = Len(GoldLabels(e.idx))
                 /\ trialResults[1][j] = Pred(e.ret)
                 /\ trialResults[2][j] = GoldLabels(e.idx)
        /\ base >= 1 /\ ~IsTestCall(log[base])

\* C6 (as claimed): testing() calls the model's test operation once per sample
\* in input order with numLabels the number of actual labels and returns
\* aligned predicted and actual lists, for every model class, the endpoint
\* model included: no testModel call is rejected for its arguments.
C6_AsClaimed ==
  /\ TestingAligned
  /\ ~(pc = "error" /\ err = "TypeError" /\ Len(log) > 0 /\ IsTestCall(log[Len(log)]))

(***************************************************************************)
(* Properties of the scoring functions (checked under SpecPure).           *)
(***************************************************************************)
PredictedSet(pLabel) == IF pLabel.none THEN {} ELSE Range(pLabel.labels)

\* |A \cap P| / |A| for the actual and predicted labels taken as sets.
SetOverlapScore(aLabel, pLabel) ==
  Rat(Cardinality(Range(aLabel) \cap PredictedSet(pLabel)), Cardinality(Range(aLabel)))

AccuracyCall ==
  /\ call.fn = "calculateAccuracy"
  /\ Len(call.classifications[1]) = Len(call.classifications[2])
  /\ Len(call.classifications[2]) > 0
  /\ \A i \in 1..Len(call.classifications[2]) : Len(call.classifications[2][i]) > 0

\* C7 (as claimed): calculateAccuracy returns the mean over the evaluated
\* samples of |A \cap P| / |A| with A and P as sets; each sample's score is in
\* [0,1] and is 1 exactly when every actual label is predicted, also when the
\* actual label list repeats a label; an empty prediction scores 0.
C7_AsClaimed ==
  AccuracyCall =>
    LET predicted == call.classifications[1]
        actual    == call.classifications[2]
        n         == Len(actual)
    IN  /\ call.out.err = ""
        /\ call.out.value =
             RatDivInt(RatSum([i \in 1..n |-> SetOverlapScore(actual[i], predicted[i])]), n)
        /\ \A i \in 1..n :
             LET score == CurrAccuracy(actual[i], predicted[i])
             IN  /\ RatLeq(RatZero, score) /\ RatLeq(score, RatOne)
                 /\ score = RatOne <=> Range(actual[i]) \subseteq PredictedSet(predicted[i])
                 /\ PredictedSet(predicted[i]) = {} => score = RatZero

ConfusionCall ==
  /\ call.fn = "calculateConfusionMatrix"
  /\ Len(call.classifications[1]) = Len(call.classifications[2])

\* C8 (as claimed): the returned confusion matrix is (numLabels+2) x
\* (numLabels+2), with row labels and column labels both the label strings
\* followed by "(none)" and "Totals".
C8_AsClaimed ==
  ConfusionCall /\ call.out.err = "" /\ Len(call.classifications[2]) > 0 =>
    LET total == Len(call.references)
    IN  /\ Len(call.out.data) = total + 2
        /\ \A r \in 1..Len(call.out.data) : Len(call.out.data[r]) = total + 2
        /\ call.out.index = call.references \o <<"(none)", "Totals">>
        /\ call.out.columns = call.references \o <<"(none)", "Totals">>

\* C8 (amended): the returned confusion matrix has numLabels+1 rows (the
\* labels and the totals row, no row for "no prediction") and numLabels+2
\* columns (the labels, "(none)" and the totals column); the row labels are
\* the label strings followed by "Prediction Totals", the column labels the
\* label strings followed by "(none)" and "Actual Totals".
C8_ShapeAndLabels ==
  ConfusionCall /\ call.out.err = "" =>
    LET total == Len(call.references)
    IN  /\ Len(call.out.data) = total + 1
        /\ \A r \in 1..Len(call.out.data) : Len(call.out.data[r]) = total + 2
        /\ call.out.index = call.references \o <<"Prediction Totals">>
        /\ call.out.columns = call.references \o <<"(none)", "Actual Totals">>
        /\ Len(call.out.index) = Len(call.out.data)
        /\ Len(call.out.columns) = total + 2

C8_Witness ==
  /\ ConfusionCall /\ call.out.err = ""
  /\ Len(call.references) = 2
  /\ Len(call.classifications[2]) = 2
  /\ Len(call.out.data) = 3

\* The column a sample is to be counted in when an empty prediction list
\* counts as no prediction.
ClaimedColumn(pLabel, total) ==
  IF pLabel.none \/ pLabel.labels = <<>> THEN total ELSE pLabel.labels[1]

\* C9 (as claimed): calculateConfusionMatrix counts every evaluated sample in
\* exactly one body cell, [first actual][first predicted], or [first actual]
\* [none column] when there is no prediction, an empty predicted list
\* included; no sample makes it fail and none is skipped.
C9_AsClaimed ==
  (ConfusionCall /\ \A i \in 1..Len(call.classifications[2]) :
                      Len(call.classifications[2][i]) > 0) =>
    LET predicted == call.classifications[1]
        actual    == call.classifications[2]
        total     == Len(call.references)
    IN  /\ call.out.err = ""
        /\ \A r \in 1..total : \A c \in 1..(total + 1) :
             call.out.data[r][c] =
               Cardinality({i \in 1..Len(actual) :
                              /\ actual[i][1] = r - 1
                              /\ ClaimedColumn(predicted[i], total) = c - 1})

\* C10: in every returned confusion matrix the last row holds the column sums
\* of the body, the last column the row sums, and the bottom-right cell the
\* number of scored samples.
C10_TotalsAreSums ==
  ConfusionCall /\ call.out.err = "" =>
    LET d     == call.out.data
        total == Len(call.references)
    IN  /\ \A c \in 1..(total + 1) :
             d[total + 1][c] = SumSeq([r \in 1..total |-> d[r][c]])
        /\ \A r \in 1..(total + 1) :
             d[r][total + 2] = SumSeq([c \in 1..(total + 1) |-> d[r][c]])
        /\ d[total + 1][total + 2] = Len(call.classifications[2])

C10_Witness ==
  /\ ConfusionCall /\ call.out.err = ""
  /\ Len(call.references) = 2
  /\ Len(call.classifications[2]) = 2
  /\ call.classifications[1][1].none
  /\ ~call.classifications[1][2].none
  /\ call.out.data[3][4] = 2


(***************************************************************************)
(* Properties of evaluateCumulativeResults (checked under SpecPure).       *)
(* The exact value of a float is its significand, an unbounded binary      *)
(* natural number (most significant bit first), times a power of two.      *)
(***************************************************************************)
BigPad(a, n) == Zeros(n - Len(a)) \o a

\* a + b for binary naturals.
BigAdd(a, b) ==
  LET n == Max(Len(a), Len(b)) IN AddBits(BigPad(a, n), BigPad(b, n))

\* a <= b for binary naturals.
BigLeq(a, b) ==
  LET n == Max(Len(a), Len(b))
      x == BigPad(a, n)
      y == BigPad(b, n)
  IN  \/ x = y
      \/ \E i \in 1..n : x[i] < y[i] /\ \A j \in 1..(i - 1) : x[j] = y[j]

RECURSIVE BigSum(_)
BigSum(s) == IF s = <<>> THEN <<>> ELSE BigAdd(s[1], BigSum(Tail(s)))

\* The exact value of the float f in units of 2^(e - MantissaBits), for an
\* exponent e not above the exponent of f.
Scaled(f, e) == IF f.bits = <<>> THEN <<>> ELSE f.bits \o Zeros(f.exp - e)

\* The least exponent of the floats fs that are not zero.
LowestExp(fs) ==
  LET es == {f.exp : f \in {g \in fs : g.bits # <<>>}}
  IN  IF es = {} THEN 0 ELSE CHOOSE e \in es : \A d \in es : e <= d

\* The number of leading bits in which a mean agrees with the exact mean.
MeanAccurateBits == MantissaBits - 3

CumulativeCall == call.fn = "evaluateCumulativeResults"

\* A non-empty list of trial results whose confusion matrices have one shape.
SameShapeCall ==
  /\ CumulativeCall
  /\ Len(call.intermResults) > 0
  /\ \A i \in 1..Len(call.intermResults) :
       Shape(call.intermResults[i].cm) = Shape(call.intermResults[1].cm)

\* The per-fold accuracies of the call, as floats.
CallAccuracies ==
  [i \in 1..Len(call.intermResults) |-> Float(call.intermResults[i].accuracy)]

\* n * mean and the exact sum of the accuracies, in one unit.
ExactMeanTimesN ==
  LET acc == CallAccuracies
      m   == call.out.mean_accuracy
      e   == LowestExp({acc[i] : i \in 1..Len(acc)} \cup {m})
  IN  BigSum([i \in 1..Len(acc) |-> Scaled(m, e)])

ExactAccuracySum ==
  LET acc == CallAccuracies
      m   == call.out.mean_accuracy
      e   == LowestExp({acc[i] : i \in 1..Len(acc)} \cup {m})
  IN  BigSum([i \in 1..Len(acc) |-> Scaled(acc[i], e)])

\* max_accuracy and min_accuracy are the greatest and the least accuracy.
MaxMinOfAccuracies ==
  LET acc == CallAccuracies
  IN  /\ \E i \in 1..Len(acc) : call.out.max_accuracy = acc[i]
      /\ \E i \in 1..Len(acc) : call.out.min_accuracy = acc[i]
      /\ \A i \in 1..Len(acc) : /\ FloatLeq(acc[i], call.out.max_accuracy)
                                 /\ FloatLeq(call.out.min_accuracy, acc[i])

\* total_cm is the element-wise sum of the confusion matrices.
TotalCmIsSum ==
  LET ir == call.intermResults
  IN  /\ Shape(call.out.total_cm) = Shape(ir[1].cm)
      /\ \A r \in 1..Len(ir[1].cm) : \A c \in 1..Len(ir[1].cm[r]) :
           call.out.total_cm[r][c] = SumSeq([i \in 1..Len(ir) |-> ir[i].cm[r][c]])

\* The list with its first two items exchanged, and the list rotated by one:
\* every reordering of a list is a composition of these two.
SwapFirstTwo(s) == IF Len(s) < 2 THEN s ELSE <<s[2], s[1]>> \o SubSeq(s, 3, Len(s))

RotateLeft(s) == IF Len(s) < 2 THEN s ELSE Append(Tail(s), s[1])

MeanWithinRounding ==
  LET p     == ExactMeanTimesN
      q     == ExactAccuracySum
      shift == Zeros(MeanAccurateBits)
  IN  /\ BigLeq(p \o shift, BigAdd(q \o shift, q))
      /\ BigLeq(q \o shift, BigAdd(p \o shift, q))

\* The result o has the extremes and the total of the call's result.
SameExtremesAndTotal(o) ==
  /\ o.max_accuracy = call.out.max_accuracy
  /\ o.min_accuracy = call.out.min_accuracy
  /\ o.total_cm = call.out.total_cm

LengthMismatchError == calculateAccuracy(<< <<Pred(<<0>>)>>, <<>> >>, <<>>).err

\* C12 (as claimed): called with an empty list, evaluateCumulativeResults fails
\* with the error kind of the length-mismatch checks (ValueError) and returns
\* no result.
C12_AsClaimed ==
  CumulativeCall /\ Len(call.intermResults) = 0 =>
    /\ call.out.err = LengthMismatchError
    /\ call.out.total_cm = <<>>


(***************************************************************************)
(* Properties of winningLabels and _getTopLabels (checked under SpecPure). *)
(***************************************************************************)
WinningCall == call.fn = "winningLabels"

TopLabelsCall == call.fn = "_getTopLabels"

\* The mapping {0:0, 1:4, 2:0, 3:1}.
ExampleFrequencies == (0 :> 0) @@ (1 :> 4) @@ (2 :> 0) @@ (3 :> 1)

ExampleCall == WinningCall /\ call.labels = DictArg(ExampleFrequencies) /\ call.n = DefaultN

\* C13 (as claimed): winningLabels returns the labels whose frequency is > 0,
\* ordered by descending frequency and truncated to at most limit entries;
\* for {0:0, 1:4, 2:0, 3:1} with limit 3 it returns [1, 3].
C13_AsClaimed ==
  WinningCall =>
    LET counter  == Counter(call.labels)
        positive == {l \in DOMAIN counter : counter[l] > 0}
        out      == call.out
    IN  /\ Len(out) = Min(call.n, Cardinality(positive))
        /\ Range(out) \subseteq positive
        /\ NoRepeats(out)
        /\ \A i, j \in 1..Len(out) : i < j => counter[out[i]] >= counter[out[j]]
        /\ \A l \in positive \ Range(out) : \A i \in 1..Len(out) : counter[l] <= counter[out[i]]
        /\ ExampleCall => out = <<1, 3>>

\* C13: winningLabels returns the labels whose frequency equals the greatest
\* frequency (the most frequent label and its ties), truncated to at most n
\* entries; for {0:0, 1:4, 2:0, 3:1} with limit 3 it returns [1].
C13_MostFrequentTies ==
  WinningCall =>
    LET counter == Counter(call.labels)
        top     == {l \in DOMAIN counter : \A k \in DOMAIN counter : counter[k] <= counter[l]}
        out     == call.out
    IN  /\ Len(out) = Min(call.n, Cardinality(top))
        /\ Range(out) \subseteq top
        /\ NoRepeats(out)
        /\ ExampleCall => out = <<1>>

\* winningLabels is called with {0:0, 1:4, 2:0, 3:1} and limit 3.
C13_Witness == ExampleCall /\ call.out = <<1>>

\* In out, of two labels of equal frequency the larger one comes first, and a
\* label left out is smaller than every label of its frequency in out.
LargerLabelFirst(out, frequency) ==
  /\ \A i, j \in 1..Len(out) :
       i < j /\ frequency[out[i]] = frequency[out[j]] => out[i] > out[j]
  /\ \A l \in (DOMAIN frequency) \ Range(out) : \A i \in 1..Len(out) :
       frequency[l] = frequency[out[i]] => l < out[i]

\* The same with the smaller label first.
SmallerLabelFirst(out, frequency) ==
  /\ \A i, j \in 1..Len(out) :
       i < j /\ frequency[out[i]] = frequency[out[j]] => out[i] < out[j]
  /\ \A l \in (DOMAIN frequency) \ Range(out) : \A i \in 1..Len(out) :
       frequency[l] = frequency[out[i]] => l > out[i]

\* The frequency vector of a _getTopLabels call by 0-based label index.
FrequencyByLabel ==
  [l \in 0..(Len(call.inferenceResult) - 1) |-> call.inferenceResult[l + 1]]

PredictionOf(idx) ==
  LET e == CHOOSE e \in Range(TestCalls) : e.idx = idx /\ e.ok
  IN  e.ret

\* The label string of the first label of a prediction, "(none)" without one.
TopOneString(ret) ==
  IF ret = <<>> THEN "(none)" ELSE LabelReference(rows)[ret[1] + 1]

ExpectedCompared == KFoldRun /\ args.expectation /\ expectedAccuracy # <<>>

\* C15 (as claimed): in a K_FOLD run with an expectation file, the predicted
\* string compared with the expected label at position i is the top-1 label
\* string (or "(none)") of the prediction made for sample i itself, whatever
\* the partition; and the comparison fails with ValueError exactly when the
\* number of expected labels is not the number of evaluated samples.
C15_AsClaimed ==
  ExpectedCompared =>
    LET e == expectedAccuracy[1]
    IN  /\ e.err = "ValueError" <=> Len(e.expectedLabels) # N
        /\ e.err = "" =>
             \A i \in 1..N : e.predictedLabels[i] = TopOneString(PredictionOf(i - 1))


(***************************************************************************)
(* A failing trainModel or testModel call.                                 *)
(***************************************************************************)
FailedCall(e) == e.op \in {"trainModel", "testModel"} /\ ~e.ok

\* C16: a trainModel or testModel call that fails is the last call of the
\* run: no train, test, reset, evaluateResults or evaluateCumulativeResults
\* call follows it, the run has ended with the error, there is no cumulative
\* result and the model is not saved.
C16_FailurePropagates ==
  \A i \in 1..Len(log) :
     FailedCall(log[i]) =>
       /\ i = Len(log)
       /\ pc = "error" /\ err # ""
       /\ results = <<>>
       /\ expectedAccuracy = <<>>
       /\ ~saved

C16_Witness ==
  /\ KFoldRun /\ pc = "error" /\ err = "ModelError"
  /\ FailedCall(log[Len(log)])
  /\ log[Len(log)].op = "trainModel"
  /\ Len(intermResults) = 1 /\ args.kFolds = 3
  /\ model # ModelReset(model)

(***************************************************************************)
(* Training on all the data (run, lines 241-243).                          *)
(***************************************************************************)
\* A run that asks for training on all the data and for nothing else.
TrainAllOnly == TrainAllRun /\ ~args.test

RECURSIVE TrainedOnFirst(_, _)
\* The model m after trainModel on the first k samples of the data, in input
\* order, each with the label of its row.
TrainedOnFirst(m, k) ==
  IF k = 0 THEN m
  ELSE ModelTrain(TrainedOnFirst(m, k - 1), Patterns(rows)[k][1], Labels(rows)[k])

AfterTraining == pc \in {"random", "save", "done"}

\* C17 (as claimed): after the training phase of a TRAIN_ALL run the model
\* state is that of an untrained model trained on the run's N samples, once
\* each in input order, and nothing else; and the run makes no testModel call.
C17_AsClaimed ==
  TrainAllOnly =>
    /\ TestCalls = <<>>
    /\ AfterTraining => model = TrainedOnFirst(UntrainedModel, N)

\* C17: in a TRAIN_ALL run the model state after the training phase is the
\* state of the model that run() constructed or loaded, trained on the run's N
\* samples, once each in input order; a loaded model keeps what it had learned
\* before; and the run makes no testModel call.
C17_TrainAllExtendsInitialModel ==
  TrainAllOnly =>
    /\ TestCalls = <<>>
    /\ pc = "train_all" => model = TrainedOnFirst(initialModel, pos)
    /\ AfterTraining =>
         /\ model = TrainedOnFirst(initialModel, N)
         /\ Sigs(TrainCalls) = [j \in 1..N |-> <<"trainModel", j - 1>>]
         /\ initialModel # UntrainedModel => model # TrainedOnFirst(UntrainedModel, N)

C17_Witness ==
  /\ TrainAllOnly /\ pc = "done" /\ N >= 2
  /\ initialModel # UntrainedModel
  /\ model = TrainedOnFirst(initialModel, N)
  /\ model # TrainedOnFirst(UntrainedModel, N)

(***************************************************************************)
(* The sample that a scored fold shows next to each evaluated sample.      *)
(***************************************************************************)
\* The positions of the evaluated samples of a fold result that count as
\* errors: per-sample accuracy other than 1.
ErrorPositions(r) ==
  SelectIndices(1, Len(r.report),
                [j \in 1..Len(r.report) |->
                   CurrAccuracy(r.report[j].actual, r.report[j].predicted) # RatOne])

\* C18 (as claimed): in every scored fold of a K_FOLD run, the i-th line of
\* the trial report and every recorded error carry the content of the sample
\* that was evaluated, the sample at index evalIndices[i], with its actual and
\* predicted labels.
C18_AsClaimed ==
  KFoldRun =>
    \A f \in 1..Len(intermResults) :
       LET r       == intermResults[f]
           eval    == EvalIndices(partitions[f])
           samples == SetupData(rows)
           wrong   == ErrorPositions(r)
       IN  /\ Len(r.report) = Len(eval)
           /\ \A i \in 1..Len(r.report) :
                /\ r.report[i].num = eval[i]
                /\ r.report[i].sample = samples[eval[i] + 1][1]
                /\ r.report[i].actual = samples[eval[i] + 1][2]
           /\ Len(r.errors) = Len(wrong)
           /\ \A j \in 1..Len(r.errors) :
                /\ r.errors[j].sample = samples[eval[wrong[j]] + 1]
                /\ r.errors[j].actual = r.report[wrong[j]].actual
                /\ r.errors[j].predicted = r.report[wrong[j]].predicted

====
